---- MODULE Spec2Model ----
(***************************************************************************)
(* Model of tdc's dynamic predecessor index DynIndex<t_list, t_sampling>   *)
(* (src/include/tdc/math/bit_mask.hpp, lines 119-306).                     *)
(*                                                                         *)
(* Two instances are driven with the same insert sequence, as the          *)
(* benchmark driver does for every data structure: the bitset              *)
(* instantiation (t_list = FALSE) and the list instantiation               *)
(* (t_list = TRUE).  Pointers to buckets are indices into the instance's   *)
(* heap (the sequence of buckets allocated by insert); 0 is nullptr.       *)
(*                                                                         *)
(* The word-parallel primitives math::bit_mask (same file, lines 19-23)    *)
(* and intrisics::pcmpgtub (src/unnamed/part_001) are pure functions; each *)
(* has a specification of its own that draws the arguments and calls it.   *)
(* Words are sets of bit positions, so that 64-bit values are exact.       *)
(*                                                                         *)
(* hash::Map (src/benchmark/int_vector.cpp, lines 143-431) is driven with  *)
(* insert, erase and find next to a reference map.  io::BitOStream         *)
(* (src/src/io/bit_ostream.cpp) is driven with write_bit and destroyed;    *)
(* the underlying std::ostream is the sequence of the bytes put.           *)
(***************************************************************************)
EXTENDS Integers, Sequences, FiniteSets, TLC

\* ------------------------------------------------------------------ bounds
\* greatest prefix (key >> t_sampling) the driver inserts or queries
MaxPrefix == 3
\* number of insert calls of one run
MaxInserts == 3
\* number of insert calls before concurrent queries
MaxInsertsQ == 2
\* bit_mask is called with up to num_bits + MaxExcess bits
MaxExcess == 2
\* number of byte lanes in which the operands of pcmpgtub differ from zero
MaxLanesSet == 2
\* greatest key given to hash::Map
MaxKey == 4
\* number of bits written to a BitOStream
MaxBits == 15
\* number of elements pushed into a bucket_list on its own
MaxListLen == 4
\* number of hash::Map::insert calls of one run
MaxMapInserts == 3

\* ------------------------------------------------------- program constants
\* width of one element of bucket_list::list (std::vector<uint16_t>)
ListElemBits == 16
nullptr == 0

\* values of the template parameter t_sampling the model instantiates
SamplingSet == {2, 17}

\* suffixes the driver uses: both ends of a bucket
SuffixSet(s) == {0, 1, 2^s - 1}
KeyDomain(s) == {p * 2^s + f : p \in 0..MaxPrefix, f \in SuffixSet(s)}
\* what an uninitialised uint64_t member may hold
Garbage == {0, 1}
\* keys the concurrent threads query: one in each of the two lowest buckets'
\* ranges (below, between and above the inserted keys)
QueryDomainQ(s) == {1, 2^s + 1}
\* threads that query one instance concurrently
Threads == {"t1", "t2"}

VARIABLES
  t_sampling,  \* template parameter: number of suffix bits
  bv,          \* DynIndex<false, t_sampling>
  ls,          \* DynIndex<true, t_sampling>
  S,           \* the set of keys inserted so far (history)
  ninserts,    \* number of insert calls so far (history)
  r,           \* the driver's last query: [x, bv, ls] or NoResult
  life,        \* per instance: "live" or the outcome of its destructor
  freed,       \* per instance: how often the destructor deleted each bucket
  q,           \* per query thread: the predecessor call it is executing
  bm,          \* a call of bit_mask<T>(bits): arguments and return value
  cmp,         \* a call of pcmpgtub(a, b): arguments and return value
  hm,          \* hash::Map<K, V>
  ref,         \* reference map: the keys inserted and not erased, with values
  nins,        \* number of hash::Map::insert calls so far (history)
  acc,         \* the last find: [key, a] or NoFind
  lb,          \* a bucket_list on its own: the bucket and the last pred call
  bo           \* io::BitOStream with the bits written and the bytes put

indexvars == <<t_sampling, bv, ls, S, ninserts, r, life, freed, q>>
\* the state of the other components
others == <<bm, cmp, hm, ref, nins, acc, lb, bo>>
vars == <<t_sampling, bv, ls, S, ninserts, r, life, freed, q, bm, cmp, hm, ref, nins, acc, lb, bo>>

NoResult == [x |-> -1]

Min(a, b) == IF a <= b THEN a ELSE b
Max(a, b) == IF a >= b THEN a ELSE b
SetMax(A) == CHOOSE m \in A : \A a \in A : a <= m
SetMin(A) == CHOOSE m \in A : \A a \in A : m <= a

\* ------------------------------------------------------------- bit_mask
\* The unsigned types T, named by their number of bits.
IntTypes == {8, 16, 32, 64}
\* int_type_traits<T>::num_bits()
num_bits(T) == T
\* width of int, to which narrower operands are promoted
IntBits == 32
\* the width the operators << and ~ work in for an operand of type T
promoted_bits(T) == IF T < IntBits THEN IntBits ELSE T

\* std::numeric_limits<T>::max(): all bits of T
numeric_limits_max(T) == 0..(T - 1)
\* a << n in w bits, for n < w
shift_left(a, n, w) == {i + n : i \in a} \cap (0..(w - 1))
\* ~a in w bits
bit_not(a, w) == (0..(w - 1)) \ a
\* conversion of the result to T
convert(a, T) == a \cap (0..(T - 1))

\* bit_mask with the test bits > num_bits
bit_mask_off_by_one(T, bits) ==
  IF bits > num_bits(T)
    THEN [value |-> numeric_limits_max(T), shift |-> -1, ub |-> FALSE]
    ELSE [value |-> convert(bit_not(shift_left(numeric_limits_max(T), bits,
                                               promoted_bits(T)),
                                    promoted_bits(T)), T),
          shift |-> bits,
          ub |-> bits >= promoted_bits(T)]

\* math::bit_mask<T>(bits): the value returned, the count of the shift it
\* evaluated (-1: none) and whether that shift was undefined (a count >= the
\* width of the promoted operand; value then carries no meaning)
bit_mask(T, bits) ==
  IF bits >= num_bits(T)
    THEN [value |-> numeric_limits_max(T), shift |-> -1, ub |-> FALSE]
    ELSE [value |-> convert(bit_not(shift_left(numeric_limits_max(T), bits,
                                               promoted_bits(T)),
                                    promoted_bits(T)), T),
          shift |-> bits,
          ub |-> bits >= promoted_bits(T)]

NotCalled == [called |-> FALSE]

\* ------------------------------------------------------------- pcmpgtub
\* A 64-bit word is the sequence of its 8 bytes, lowest first.
Lanes == 1..8
\* byte values the operands are built from: both sides of the sign bit
ByteSet == {0, 127, 128, 255}
\* the byte 0x80 of XOR_MASK
XOR_MASK_BYTE == 128
XOR_MASK == [i \in Lanes |-> XOR_MASK_BYTE]

\* bit i of the byte v
bit(v, i) == (v \div 2^i) % 2
\* bitwise exclusive or of two bytes
xor8(v, w) ==
  LET d(i) == IF bit(v, i) # bit(w, i) THEN 2^i ELSE 0
  IN  d(0) + d(1) + d(2) + d(3) + d(4) + d(5) + d(6) + d(7)
\* _mm_xor_si64
mm_xor_si64(a, b) == [i \in Lanes |-> xor8(a[i], b[i])]
\* the byte v read as a signed 8-bit integer
signed8(v) == IF v >= 128 THEN v - 256 ELSE v
\* _m_pcmpgtb: per-byte signed greater-than, 0xFF or 0x00 per lane
m_pcmpgtb(a, b) ==
  [i \in Lanes |-> IF signed8(a[i]) > signed8(b[i]) THEN 255 ELSE 0]

\* pcmpgtub without the XOR of the operands
pcmpgtub_signed(a, b) == m_pcmpgtb(a, b)

\* intrisics::pcmpgtub
pcmpgtub(a, b) == m_pcmpgtb(mm_xor_si64(a, XOR_MASK), mm_xor_si64(b, XOR_MASK))

\* ------------------------------------------------------------ hash::Map
\* default arguments of the constructor
load_factor == 1
growth_factor == 2
\* LinearProbing<>: the next probe offset
LinearProbing(i) == i + 1
\* the hash function the map is constructed with: the identity
hash_func(key) == key
\* Accessor::m_map of a valid accessor
this == 1

\* Map::init with m_size_max one above the capacity
Map_init_late_growth(capacity) ==
  [m_size |-> 0, m_cap |-> capacity, m_probe_max |-> 0,
   m_used |-> [h \in 0..(capacity - 1) |-> FALSE],
   m_keys |-> [h \in 0..(capacity - 1) |-> 0],
   m_values |-> [h \in 0..(capacity - 1) |-> 0],
   m_size_max |-> load_factor * capacity + 1,
   m_size_grow |-> IF load_factor * capacity + 1 >= capacity * growth_factor
                     THEN load_factor * capacity + 1
                     ELSE capacity * growth_factor]

\* Map::init
Map_init(capacity) ==
  [m_size |-> 0, m_cap |-> capacity, m_probe_max |-> 0,
   m_used |-> [h \in 0..(capacity - 1) |-> FALSE],
   m_keys |-> [h \in 0..(capacity - 1) |-> 0],
   m_values |-> [h \in 0..(capacity - 1) |-> 0],
   m_size_max |-> load_factor * capacity,
   m_size_grow |-> IF load_factor * capacity + 1 >= capacity * growth_factor
                     THEN load_factor * capacity + 1
                     ELSE capacity * growth_factor]

\* Map::hash
Map_hash(m, key) == hash_func(key) % m.m_cap

\* the while loop of insert_internal: the first unused slot of the probe
\* sequence and the number of probe steps
RECURSIVE insert_probe(_, _, _, _, _)
insert_probe(m, hkey, h, i, probe) ==
  IF m.m_used[h]
    THEN insert_probe(m, hkey, (hkey + LinearProbing(i)) % m.m_cap,
                      LinearProbing(i), probe + 1)
    ELSE [h |-> h, probe |-> probe]

\* Map::insert_internal
Map_insert_internal(m, key, value) ==
  LET hkey == Map_hash(m, key)
      p == insert_probe(m, hkey, hkey, 0, 0)
  IN  [m EXCEPT !.m_probe_max = IF @ >= p.probe THEN @ ELSE p.probe,
                !.m_used[p.h] = TRUE,
                !.m_keys[p.h] = key,
                !.m_values[p.h] = value,
                !.m_size = @ + 1]

\* the loop of resize over the old slots from i
RECURSIVE resize_loop(_, _, _)
resize_loop(m, old, i) ==
  IF i < old.m_cap
    THEN resize_loop(IF old.m_used[i]
                       THEN Map_insert_internal(m, old.m_keys[i], old.m_values[i])
                       ELSE m,
                     old, i + 1)
    ELSE m

\* Map::resize
Map_resize(m, new_cap) == resize_loop(Map_init(new_cap), m, 0)

\* Map::insert
Map_insert(m, key, value) ==
  Map_insert_internal(IF m.m_size + 1 > m.m_size_max
                        THEN Map_resize(m, m.m_size_grow)
                        ELSE m,
                      key, value)

\* Accessor(map, pos) and Accessor()
Accessor(pos) == [m_map |-> this, m_pos |-> pos]
InvalidAccessor == [m_map |-> nullptr, m_pos |-> 0]

\* the for loop of find
RECURSIVE find_loop(_, _, _, _, _)
find_loop(m, key, hkey, i, probe) ==
  IF probe < m.m_probe_max
    THEN LET i2 == LinearProbing(i)
             h == (hkey + i2) % m.m_cap
         IN  IF m.m_used[h]
               THEN IF m.m_keys[h] = key
                      THEN Accessor(h)
                      ELSE find_loop(m, key, hkey, i2, probe + 1)
               ELSE InvalidAccessor
    ELSE InvalidAccessor

\* Map::find
Map_find(m, key) ==
  LET hkey == Map_hash(m, key)
  IN  IF m.m_used[hkey] /\ m.m_keys[hkey] = key
        THEN Accessor(hkey)
        ELSE find_loop(m, key, hkey, 0, 0)

\* Map::erase(const Accessor&)
Map_erase_accessor(m, a) ==
  IF a.m_map # nullptr THEN [m EXCEPT !.m_used[a.m_pos] = FALSE] ELSE m

\* Map::erase(const K&)
Map_erase(m, key) == Map_erase_accessor(m, Map_find(m, key))

\* Map::size
Map_size(m) == m.m_size

NoFind == [key |-> -1]
\* values of the constructor argument capacity
CapacitySet == {1, 4}
KeySet == 0..MaxKey
ValueSet == {1, 2}
EmptyRef == [k \in {} |-> 0]

\* no map is used
MapUnused ==
  /\ hm = Map_init(SetMin(CapacitySet))
  /\ ref = EmptyRef
  /\ nins = 0
  /\ acc = NoFind

\* ----------------------------------------------------------- BitOStream
\* position of the most significant bit of the byte buffer m_next
MSB == 7

\* bitwise or of two bytes
or8(v, w) ==
  LET d(i) == IF bit(v, i) = 1 \/ bit(w, i) = 1 THEN 2^i ELSE 0
  IN  d(0) + d(1) + d(2) + d(3) + d(4) + d(5) + d(6) + d(7)

\* BitOStream::reset
reset(o) == [o EXCEPT !.m_next = 0, !.m_cursor = MSB]

\* BitOStream::write_next: m_stream->put(char(m_next)); reset()
write_next(o) == reset([o EXCEPT !.m_stream = Append(@, o.m_next)])

\* BitOStream::BitOStream(stream) on an empty stream
BitOStream == reset([m_stream |-> <<>>, m_next |-> 0, m_cursor |-> 0])

\* BitOStream::write_bit (m_bits_written is only counted)
write_bit(o, b) ==
  LET o1 == [o EXCEPT !.m_next = or8(@, (IF b THEN 1 ELSE 0) * 2^o.m_cursor),
                      !.m_cursor = @ - 1]
  IN  IF o1.m_cursor < 0 THEN write_next(o1) ELSE o1

\* the destructor with the test m_cursor >= 1
BitOStream_destructor_two_free(o) ==
  LET set_bits == MSB - o.m_cursor
  IN  IF o.m_cursor >= 1
        THEN write_next([o EXCEPT !.m_next = or8(@, set_bits)])
        ELSE write_next([write_next(o) EXCEPT !.m_next = set_bits])

\* BitOStream::~BitOStream
BitOStream_destructor(o) ==
  LET set_bits == MSB - o.m_cursor
  IN  IF o.m_cursor >= 2
        THEN write_next([o EXCEPT !.m_next = or8(@, set_bits)])
        ELSE write_next([write_next(o) EXCEPT !.m_next = set_bits])

\* --------------------------------------------------------------- buckets
b_size(s) == 2^s

\* DynIndex::prefix / DynIndex::suffix
prefix(s, i) == i \div b_size(s)
suffix(s, i) == i % b_size(s)

\* new bucket: prefix is set by the caller, prev_pred = 0, next_b = nullptr
new_bucket(t_list) ==
  IF t_list
    THEN [prefix |-> 0, prev_pred |-> 0, next_b |-> nullptr, list |-> <<>>]
    ELSE [prefix |-> 0, prev_pred |-> 0, next_b |-> nullptr, bits |-> {}]

\* bucket_bv::set
bucket_bv_set(b, i) == [b EXCEPT !.bits = @ \cup {i}]

\* bucket_bv::pred: scan i, i-1, ..., 0 for the first set bit
bucket_bv_pred(s, b, i) ==
  LET below == {j \in b.bits : j <= i}
  IN  IF below # {} THEN b.prefix * b_size(s) + SetMax(below)
                    ELSE b.prev_pred

\* bucket_list::set leaving out an element the list already holds
bucket_list_set_if_absent(b, i) ==
  IF \E j \in 1..Len(b.list) : b.list[j] = i % (2^ListElemBits)
    THEN b
    ELSE [b EXCEPT !.list = Append(@, i % (2^ListElemBits))]

\* bucket_list::set: push_back converts to uint16_t
bucket_list_set(b, i) == [b EXCEPT !.list = Append(@, i % (2^ListElemBits))]

\* bucket_list::pred, first loop: index of the first element <= i (0: none)
RECURSIVE list_first_pass(_, _, _)
list_first_pass(list, j, i) ==
  IF j > Len(list) THEN 0
  ELSE IF list[j] <= i THEN j
  ELSE list_first_pass(list, j + 1, i)

\* bucket_list::pred, second loop from j on
RECURSIVE list_second_pass(_, _, _, _)
list_second_pass(list, j, p, i) ==
  IF j > Len(list) THEN p
  ELSE list_second_pass(list, j + 1,
                        IF list[j] > p /\ list[j] <= i THEN list[j] ELSE p, i)

\* bucket_list::pred returning the element the first loop stopped at
bucket_list_pred_first_match(s, b, i) ==
  LET j == list_first_pass(b.list, 1, i)
  IN  IF j = 0 THEN b.prev_pred
      ELSE b.prefix * b_size(s) + b.list[j]

\* bucket_list::pred
bucket_list_pred(s, b, i) ==
  LET j == list_first_pass(b.list, 1, i)
  IN  IF j = 0 THEN b.prev_pred
      ELSE b.prefix * b_size(s) + list_second_pass(b.list, j, b.list[j], i)

bucket_set(t_list, b, i) ==
  IF t_list THEN bucket_list_set(b, i) ELSE bucket_bv_set(b, i)
bucket_pred(t_list, s, b, i) ==
  IF t_list THEN bucket_list_pred(s, b, i) ELSE bucket_bv_pred(s, b, i)

\* ------------------------------------------------------------ the index
\* DynIndex(): m_size = 0, m_xf empty, m_first_b = nullptr; m_min and m_max
\* are not initialised
EmptyIndex(gmin, gmax) ==
  [m_size |-> 0, m_min |-> gmin, m_max |-> gmax, m_xf |-> <<>>,
   m_first_b |-> nullptr, heap |-> <<>>]

\* m_xf[p] (0-based in the source)
xf_at(d, p) == d.m_xf[p + 1]

\* resize padding with nullptr instead of v
xf_resize_null(xf, n, v) == xf \o [j \in 1..(n - Len(xf)) |-> nullptr]

\* std::vector::resize(n, v) of a vector shorter than n
xf_resize(xf, n, v) == xf \o [j \in 1..(n - Len(xf)) |-> v]

\* the loop of lines 288-291 leaving after its first assignment
fill_gap_single(xf, j, next_bucket, new_b) ==
  IF j < Len(xf) /\ xf[j + 1] = next_bucket
    THEN [xf EXCEPT ![j + 1] = new_b]
    ELSE xf

\* the loop of lines 288-291
RECURSIVE fill_gap(_, _, _, _)
fill_gap(xf, j, next_bucket, new_b) ==
  IF j < Len(xf) /\ xf[j + 1] = next_bucket
    THEN fill_gap([xf EXCEPT ![j + 1] = new_b], j + 1, next_bucket, new_b)
    ELSE xf

\* update_xfast without line 281 (m_min is not lowered)
update_xfast_no_min(s, d, key, new_b) ==
  LET key_pre == prefix(s, key)
      d1 == [d EXCEPT !.m_max = Max(key, @), !.m_xf[key_pre + 1] = new_b]
  IN  IF key_pre + 1 < Len(d1.m_xf)
        THEN LET next_bucket == d1.m_xf[key_pre + 2]
             IN  IF next_bucket = nullptr
                    \/ d1.heap[next_bucket].prefix < key_pre
                   THEN [d1 EXCEPT !.m_xf =
                           fill_gap(@, key_pre + 1, next_bucket, new_b)]
                   ELSE d1
        ELSE d1

\* lines 281-293: min/max, xf[key_pre] and the fill of the following entries
update_xfast(s, d, key, new_b) ==
  LET key_pre == prefix(s, key)
      d1 == [d EXCEPT !.m_min = Min(key, @), !.m_max = Max(key, @),
                      !.m_xf[key_pre + 1] = new_b]
  IN  IF key_pre + 1 < Len(d1.m_xf)
        THEN LET next_bucket == d1.m_xf[key_pre + 2]
             IN  IF next_bucket = nullptr
                    \/ d1.heap[next_bucket].prefix < key_pre
                   THEN [d1 EXCEPT !.m_xf =
                           fill_gap(@, key_pre + 1, next_bucket, new_b)]
                   ELSE d1
        ELSE d1

\* lines 226-234: a key above the top array of a non-empty index
insert_above(t_list, s, d, key) ==
  LET key_pre == prefix(s, key)
      new_b == Len(d.heap) + 1
      back == d.m_xf[Len(d.m_xf)]
      b == bucket_set(t_list,
                      [new_bucket(t_list) EXCEPT !.prefix = key_pre,
                                                 !.next_b = nullptr],
                      suffix(s, key))
      heap1 == Append(d.heap, [b EXCEPT !.prev_pred = d.m_max])
      d1 == [d EXCEPT !.heap = [heap1 EXCEPT ![back].next_b = new_b],
                      !.m_xf = xf_resize(@, key_pre + 1, back)]
  IN  update_xfast(s, d1, key, new_b)

\* insert_first without ++m_size
insert_first_no_size(t_list, s, d, key) ==
  LET key_pre == prefix(s, key)
      new_b == Len(d.heap) + 1
      b == bucket_set(t_list,
                      [new_bucket(t_list) EXCEPT !.prefix = key_pre,
                                                 !.next_b = d.m_first_b],
                      suffix(s, key))
      d1 == [d EXCEPT !.m_min = key, !.m_max = key,
                      !.heap = Append(@, b),
                      !.m_first_b = new_b,
                      !.m_xf = xf_resize(@, key_pre + 1, nullptr)]
  IN  update_xfast(s, d1, key, new_b)

\* lines 235-245: the first key
insert_first(t_list, s, d, key) ==
  LET key_pre == prefix(s, key)
      new_b == Len(d.heap) + 1
      b == bucket_set(t_list,
                      [new_bucket(t_list) EXCEPT !.prefix = key_pre,
                                                 !.next_b = d.m_first_b],
                      suffix(s, key))
      d1 == [d EXCEPT !.m_min = key, !.m_max = key,
                      !.heap = Append(@, b),
                      !.m_first_b = new_b,
                      !.m_size = @ + 1,
                      !.m_xf = xf_resize(@, key_pre + 1, nullptr)]
  IN  update_xfast(s, d1, key, new_b)

\* insert_before without line 248 (m_first_b->prev_pred = key)
insert_before_keeps_prev_pred(t_list, s, d, key) ==
  LET key_pre == prefix(s, key)
      new_b == Len(d.heap) + 1
      b == bucket_set(t_list,
                      [new_bucket(t_list) EXCEPT !.prefix = key_pre,
                                                 !.prev_pred = 0,
                                                 !.next_b = d.m_first_b],
                      suffix(s, key))
      d1 == [d EXCEPT !.heap = Append(@, b), !.m_first_b = new_b]
  IN  update_xfast(s, d1, key, new_b)

\* lines 246-254: a key before the first bucket
insert_before(t_list, s, d, key) ==
  LET key_pre == prefix(s, key)
      new_b == Len(d.heap) + 1
      heap1 == [d.heap EXCEPT ![d.m_first_b].prev_pred = key]
      b == bucket_set(t_list,
                      [new_bucket(t_list) EXCEPT !.prefix = key_pre,
                                                 !.prev_pred = 0,
                                                 !.next_b = d.m_first_b],
                      suffix(s, key))
      d1 == [d EXCEPT !.heap = Append(heap1, b), !.m_first_b = new_b]
  IN  update_xfast(s, d1, key, new_b)

\* insert_exact returning before m_min and m_max are updated
insert_exact_stale_max(t_list, s, d, key) ==
  LET key_bucket == xf_at(d, prefix(s, key))
      heap1 == [d.heap EXCEPT ![key_bucket] =
                  bucket_set(t_list, @, suffix(s, key))]
      next_bucket == heap1[key_bucket].next_b
      heap2 == IF next_bucket # nullptr
                 THEN [heap1 EXCEPT ![next_bucket].prev_pred = Max(key, @)]
                 ELSE heap1
  IN  [d EXCEPT !.heap = heap2]

\* insert_exact assigning the key to m_min and m_max as the first insert does
insert_exact_overwrite_min_max(t_list, s, d, key) ==
  LET key_bucket == xf_at(d, prefix(s, key))
      heap1 == [d.heap EXCEPT ![key_bucket] =
                  bucket_set(t_list, @, suffix(s, key))]
      next_bucket == heap1[key_bucket].next_b
      heap2 == IF next_bucket # nullptr
                 THEN [heap1 EXCEPT ![next_bucket].prev_pred = Max(key, @)]
                 ELSE heap1
  IN  [d EXCEPT !.heap = heap2, !.m_min = key, !.m_max = key]

\* insert_exact overwriting the next bucket's prev_pred with the key
insert_exact_overwrite_prev_pred(t_list, s, d, key) ==
  LET key_bucket == xf_at(d, prefix(s, key))
      heap1 == [d.heap EXCEPT ![key_bucket] =
                  bucket_set(t_list, @, suffix(s, key))]
      next_bucket == heap1[key_bucket].next_b
      heap2 == IF next_bucket # nullptr
                 THEN [heap1 EXCEPT ![next_bucket].prev_pred = key]
                 ELSE heap1
  IN  [d EXCEPT !.heap = heap2,
                !.m_min = Min(key, @), !.m_max = Max(key, @)]

\* insert_exact raising the prev_pred of the key's bucket instead of the
\* next bucket's
insert_exact_marks_own_bucket(t_list, s, d, key) ==
  LET key_bucket == xf_at(d, prefix(s, key))
      heap1 == [d.heap EXCEPT ![key_bucket] =
                  bucket_set(t_list, @, suffix(s, key))]
      next_bucket == heap1[key_bucket].next_b
      heap2 == IF next_bucket # nullptr
                 THEN [heap1 EXCEPT ![key_bucket].prev_pred = Max(key, @)]
                 ELSE heap1
  IN  [d EXCEPT !.heap = heap2,
                !.m_min = Min(key, @), !.m_max = Max(key, @)]

\* insert_exact putting the key into a new bucket that takes the place of
\* the existing one in the top array
insert_exact_allocates(t_list, s, d, key) ==
  LET key_pre == prefix(s, key)
      key_bucket == xf_at(d, key_pre)
      new_b == Len(d.heap) + 1
      b == bucket_set(t_list, d.heap[key_bucket], suffix(s, key))
  IN  [d EXCEPT !.heap = Append(@, b),
                !.m_xf[key_pre + 1] = new_b,
                !.m_min = Min(key, @), !.m_max = Max(key, @)]

\* lines 259-267: the bucket of the key's prefix exists
insert_exact(t_list, s, d, key) ==
  LET key_bucket == xf_at(d, prefix(s, key))
      heap1 == [d.heap EXCEPT ![key_bucket] =
                  bucket_set(t_list, @, suffix(s, key))]
      next_bucket == heap1[key_bucket].next_b
      heap2 == IF next_bucket # nullptr
                 THEN [heap1 EXCEPT ![next_bucket].prev_pred = Max(key, @)]
                 ELSE heap1
  IN  [d EXCEPT !.heap = heap2,
                !.m_min = Min(key, @), !.m_max = Max(key, @)]

\* insert_gap without line 275 (key_bucket->next_b = new_b)
insert_gap_unlinked(t_list, s, d, key) ==
  LET key_pre == prefix(s, key)
      key_bucket == xf_at(d, key_pre)
      new_b == Len(d.heap) + 1
      next_b == d.heap[key_bucket].next_b
      b == bucket_set(t_list,
                      [new_bucket(t_list) EXCEPT !.prefix = key_pre,
                                                 !.next_b = next_b],
                      suffix(s, key))
      heap2 == Append(d.heap, [b EXCEPT !.prev_pred = d.heap[next_b].prev_pred])
      heap3 == [heap2 EXCEPT ![next_b].prev_pred = key]
  IN  update_xfast(s, [d EXCEPT !.heap = heap3], key, new_b)

\* lines 268-278: the key's prefix lies in a gap between two buckets
insert_gap(t_list, s, d, key) ==
  LET key_pre == prefix(s, key)
      key_bucket == xf_at(d, key_pre)
      new_b == Len(d.heap) + 1
      next_b == d.heap[key_bucket].next_b
      b == bucket_set(t_list,
                      [new_bucket(t_list) EXCEPT !.prefix = key_pre,
                                                 !.next_b = next_b],
                      suffix(s, key))
      heap1 == [d.heap EXCEPT ![key_bucket].next_b = new_b]
      heap2 == Append(heap1, [b EXCEPT !.prev_pred = heap1[next_b].prev_pred])
      heap3 == [heap2 EXCEPT ![next_b].prev_pred = key]
  IN  update_xfast(s, [d EXCEPT !.heap = heap3], key, new_b)

\* DynIndex::insert
insert(t_list, s, d, key) ==
  LET key_pre == prefix(s, key)
  IN  IF key_pre >= Len(d.m_xf)
        THEN IF d.m_size # 0 THEN insert_above(t_list, s, d, key)
                             ELSE insert_first(t_list, s, d, key)
      ELSE IF key_pre < prefix(s, d.m_min)
        THEN insert_before(t_list, s, d, key)
      ELSE IF d.heap[xf_at(d, key_pre)].prefix = key_pre
        THEN insert_exact(t_list, s, d, key)
        ELSE insert_gap(t_list, s, d, key)

\* predecessor answering a key below m_min like the empty index
predecessor_below_min_as_empty(t_list, s, d, x) ==
  IF d.m_size = 0 THEN [exists |-> FALSE, pos |-> 1, xf_read |-> FALSE]
  ELSE IF x < d.m_min THEN [exists |-> FALSE, pos |-> 1, xf_read |-> FALSE]
  ELSE IF x >= d.m_max THEN [exists |-> TRUE, pos |-> d.m_max, xf_read |-> FALSE]
  ELSE [exists |-> TRUE,
        pos |-> bucket_pred(t_list, s, d.heap[xf_at(d, prefix(s, x))],
                            suffix(s, x)),
        xf_read |-> TRUE]

\* DynIndex::predecessor; xf_read records whether m_xf was indexed
predecessor(t_list, s, d, x) ==
  IF d.m_size = 0 THEN [exists |-> FALSE, pos |-> 1, xf_read |-> FALSE]
  ELSE IF x < d.m_min THEN [exists |-> FALSE, pos |-> 0, xf_read |-> FALSE]
  ELSE IF x >= d.m_max THEN [exists |-> TRUE, pos |-> d.m_max, xf_read |-> FALSE]
  ELSE [exists |-> TRUE,
        pos |-> bucket_pred(t_list, s, d.heap[xf_at(d, prefix(s, x))],
                            suffix(s, x)),
        xf_read |-> TRUE]

\* ~DynIndex: delete every entry of m_xf in order.  Deleting nullptr does
\* nothing.  Deleting a bucket a second time is undefined: the allocator
\* either detects it and aborts the process (abort = TRUE) or the loop runs
\* on over a corrupted heap.
RECURSIVE delete_loop(_, _, _, _)
delete_loop(xf, j, count, abort) ==
  IF j > Len(xf)
    THEN [freed |-> count,
          outcome |-> IF \E b \in DOMAIN count : count[b] > 1
                        THEN "corrupted" ELSE "released"]
  ELSE IF xf[j] = nullptr THEN delete_loop(xf, j + 1, count, abort)
  ELSE LET count1 == [count EXCEPT ![xf[j]] = @ + 1]
       IN  IF count1[xf[j]] > 1 /\ abort
             THEN [freed |-> count1, outcome |-> "aborted"]
             ELSE delete_loop(xf, j + 1, count1, abort)

destructor(d, abort) ==
  delete_loop(d.m_xf, 1, [b \in 1..Len(d.heap) |-> 0], abort)

\* One statement of DynIndex::predecessor (lines 301-304) as a thread
\* executes it: the next position, the value returned (at "ret") and the
\* index as the statement leaves it.
Idle == [pc |-> "idle"]

\* predecessor_step lowering the mutable m_min to a key queried below it
predecessor_step_writes_min(t_list, s, d, pc, x) ==
  CASE pc = "l301" ->
         IF d.m_size = 0
           THEN [pc |-> "ret", exists |-> FALSE, pos |-> 1, d |-> d]
           ELSE [pc |-> "l302", exists |-> FALSE, pos |-> 0, d |-> d]
    [] pc = "l302" ->
         IF x < d.m_min
           THEN [pc |-> "ret", exists |-> FALSE, pos |-> 0,
                 d |-> [d EXCEPT !.m_min = x]]
           ELSE [pc |-> "l303", exists |-> FALSE, pos |-> 0, d |-> d]
    [] pc = "l303" ->
         IF x >= d.m_max
           THEN [pc |-> "ret", exists |-> TRUE, pos |-> d.m_max, d |-> d]
           ELSE [pc |-> "l304", exists |-> FALSE, pos |-> 0, d |-> d]
    [] pc = "l304" ->
         [pc |-> "ret", exists |-> TRUE,
          pos |-> bucket_pred(t_list, s, d.heap[xf_at(d, prefix(s, x))],
                              suffix(s, x)),
          d |-> d]

predecessor_step(t_list, s, d, pc, x) ==
  CASE pc = "l301" ->
         IF d.m_size = 0
           THEN [pc |-> "ret", exists |-> FALSE, pos |-> 1, d |-> d]
           ELSE [pc |-> "l302", exists |-> FALSE, pos |-> 0, d |-> d]
    [] pc = "l302" ->
         IF x < d.m_min
           THEN [pc |-> "ret", exists |-> FALSE, pos |-> 0, d |-> d]
           ELSE [pc |-> "l303", exists |-> FALSE, pos |-> 0, d |-> d]
    [] pc = "l303" ->
         IF x >= d.m_max
           THEN [pc |-> "ret", exists |-> TRUE, pos |-> d.m_max, d |-> d]
           ELSE [pc |-> "l304", exists |-> FALSE, pos |-> 0, d |-> d]
    [] pc = "l304" ->
         [pc |-> "ret", exists |-> TRUE,
          pos |-> bucket_pred(t_list, s, d.heap[xf_at(d, prefix(s, x))],
                              suffix(s, x)),
          d |-> d]

\* --------------------------------------------------------------- actions
Init ==
  /\ t_sampling \in SamplingSet
  /\ \E g \in Garbage, h \in Garbage : bv = EmptyIndex(g, h)
  /\ \E g \in Garbage, h \in Garbage : ls = EmptyIndex(g, h)
  /\ S = {}
  /\ ninserts = 0
  /\ r = NoResult
  /\ life = [t \in BOOLEAN |-> "live"]
  /\ freed = [t \in BOOLEAN |-> <<>>]
  /\ q = [th \in Threads |-> Idle]
  /\ bm = NotCalled
  /\ cmp = NotCalled
  /\ MapUnused
  /\ lb = NotCalled
  /\ bo = NotCalled

Live == \A t \in BOOLEAN : life[t] = "live"

\* bench, lines 75-77: ds.insert(perm(i)) on each data structure, outside
\* the body of the query loop
Insert(key) ==
  /\ Live
  /\ r = NoResult
  /\ ninserts < MaxInserts
  /\ bv' = insert(FALSE, t_sampling, bv, key)
  /\ ls' = insert(TRUE, t_sampling, ls, key)
  /\ S' = S \cup {key}
  /\ ninserts' = ninserts + 1
  /\ UNCHANGED <<t_sampling, r, life, freed, q, others>>

\* bench, lines 86-87: auto r = pred(ds, x) on each data structure
Predecessor(x) ==
  /\ Live
  /\ r = NoResult
  /\ r' = [x |-> x,
           bv |-> predecessor(FALSE, t_sampling, bv, x),
           ls |-> predecessor(TRUE, t_sampling, ls, x)]
  /\ UNCHANGED <<t_sampling, bv, ls, S, ninserts, life, freed, q, others>>

\* bench, lines 88-89: chk += r.pos ends the iteration and the scope of r
Consume ==
  /\ r # NoResult
  /\ r' = NoResult
  /\ UNCHANGED <<t_sampling, bv, ls, S, ninserts, life, freed, q, others>>

Index(t_list) == IF t_list THEN ls ELSE bv

\* bench, line 119: ds goes out of scope
Destroy(t_list) ==
  /\ life[t_list] = "live"
  /\ r = NoResult
  /\ \E abort \in BOOLEAN :
       LET end == destructor(Index(t_list), abort)
       IN  /\ life' = [life EXCEPT ![t_list] = end.outcome]
           /\ freed' = [freed EXCEPT ![t_list] = end.freed]
  /\ UNCHANGED <<t_sampling, bv, ls, S, ninserts, r, q, others>>

Next ==
  \/ \E key \in KeyDomain(t_sampling) : Insert(key)
  \/ \E x \in KeyDomain(t_sampling) : Predecessor(x)
  \/ Consume
  \/ \E t_list \in BOOLEAN : Destroy(t_list)

Spec == Init /\ [][Next]_vars

\* ------------------------------------------- concurrent read-only queries
AllIdle == \A th \in Threads : q[th].pc = "idle"

\* the owner inserts while no query runs (section 5: the instance does not
\* change under concurrent queries)
InsertQ(key) == AllIdle /\ ninserts < MaxInsertsQ /\ Insert(key)

\* a thread calls predecessor(x) on the instance the running queries share
QCall(th, t_list, x) ==
  /\ q[th].pc = "idle"
  /\ \A other \in Threads : q[other].pc # "idle" => q[other].t_list = t_list
  /\ q' = [q EXCEPT ![th] = [pc |-> "l301", t_list |-> t_list, x |-> x,
                             exists |-> FALSE, pos |-> 0]]
  /\ UNCHANGED <<t_sampling, bv, ls, S, ninserts, r, life, freed, others>>

\* a thread executes its next statement
QStep(th) ==
  /\ q[th].pc \in {"l301", "l302", "l303", "l304"}
  /\ LET step == predecessor_step(q[th].t_list, t_sampling,
                                  Index(q[th].t_list), q[th].pc, q[th].x)
     IN  /\ q' = [q EXCEPT ![th].pc = step.pc, ![th].exists = step.exists,
                           ![th].pos = step.pos]
         /\ bv' = IF q[th].t_list THEN bv ELSE step.d
         /\ ls' = IF q[th].t_list THEN step.d ELSE ls
  /\ UNCHANGED <<t_sampling, S, ninserts, r, life, freed, others>>

\* the caller takes the result
QReturn(th) ==
  /\ q[th].pc = "ret"
  /\ q' = [q EXCEPT ![th] = Idle]
  /\ UNCHANGED <<t_sampling, bv, ls, S, ninserts, r, life, freed, others>>

NextQ ==
  \/ \E key \in KeyDomain(t_sampling) : InsertQ(key)
  \/ \E th \in Threads, t_list \in BOOLEAN, x \in QueryDomainQ(t_sampling) :
       QCall(th, t_list, x)
  \/ \E th \in Threads : QStep(th)
  \/ \E th \in Threads : QReturn(th)

SpecQ == Init /\ [][NextQ]_vars

\* ------------------------------------------ specification of bit_mask
\* the index is not used
IndexUnused ==
  /\ t_sampling = SetMin(SamplingSet)
  /\ bv = EmptyIndex(0, 0)
  /\ ls = EmptyIndex(0, 0)
  /\ S = {}
  /\ ninserts = 0
  /\ r = NoResult
  /\ life = [t \in BOOLEAN |-> "live"]
  /\ freed = [t \in BOOLEAN |-> <<>>]
  /\ q = [th \in Threads |-> Idle]

InitBitMask ==
  /\ IndexUnused
  /\ cmp = NotCalled
  /\ MapUnused
  /\ lb = NotCalled
  /\ bo = NotCalled
  /\ \E T \in IntTypes : \E bits \in 0..(T + MaxExcess) :
       bm = [called |-> FALSE, T |-> T, bits |-> bits]

\* return bit_mask<T>(bits)
BitMaskCall ==
  /\ ~bm.called
  /\ bm' = [called |-> TRUE, T |-> bm.T, bits |-> bm.bits,
            ret |-> bit_mask(bm.T, bm.bits)]
  /\ UNCHANGED <<indexvars, cmp, hm, ref, nins, acc, lb, bo>>

NextBitMask == BitMaskCall

SpecBitMask == InitBitMask /\ [][NextBitMask]_vars

\* ------------------------------------------ specification of pcmpgtub
Zero64 == [i \in Lanes |-> 0]

InitCmp ==
  /\ IndexUnused
  /\ bm = NotCalled
  /\ MapUnused
  /\ lb = NotCalled
  /\ bo = NotCalled
  /\ cmp = [called |-> FALSE, a |-> Zero64, b |-> Zero64]

\* the caller chooses byte i of both operands
SetLane(i, va, vb) ==
  /\ ~cmp.called
  /\ cmp.a[i] = 0 /\ cmp.b[i] = 0
  /\ Cardinality({j \in Lanes : cmp.a[j] # 0 \/ cmp.b[j] # 0}) < MaxLanesSet
  /\ cmp' = [cmp EXCEPT !.a[i] = va, !.b[i] = vb]
  /\ UNCHANGED <<indexvars, bm, hm, ref, nins, acc, lb, bo>>

\* return pcmpgtub(a, b)
CmpCall ==
  /\ ~cmp.called
  /\ cmp' = [called |-> TRUE, a |-> cmp.a, b |-> cmp.b,
             ret |-> pcmpgtub(cmp.a, cmp.b)]
  /\ UNCHANGED <<indexvars, bm, hm, ref, nins, acc, lb, bo>>

NextCmp ==
  \/ \E i \in Lanes, va \in ByteSet, vb \in ByteSet : SetLane(i, va, vb)
  \/ CmpCall

SpecCmp == InitCmp /\ [][NextCmp]_vars

\* ----------------------------------------- specification of hash::Map
InitMap ==
  /\ IndexUnused
  /\ bm = NotCalled
  /\ cmp = NotCalled
  /\ \E capacity \in CapacitySet : hm = Map_init(capacity)
  /\ ref = EmptyRef
  /\ nins = 0
  /\ acc = NoFind
  /\ lb = NotCalled
  /\ bo = NotCalled

\* map.insert(key, value), for a key that is not stored
MapInsert(key, value) ==
  /\ acc = NoFind
  /\ nins < MaxMapInserts
  /\ key \notin DOMAIN ref
  /\ hm' = Map_insert(hm, key, value)
  /\ ref' = [k \in DOMAIN ref \cup {key} |-> IF k = key THEN value ELSE ref[k]]
  /\ nins' = nins + 1
  /\ UNCHANGED <<indexvars, bm, cmp, acc, lb, bo>>

\* map.erase(key)
MapErase(key) ==
  /\ acc = NoFind
  /\ hm' = Map_erase(hm, key)
  /\ ref' = [k \in DOMAIN ref \ {key} |-> ref[k]]
  /\ UNCHANGED <<indexvars, bm, cmp, nins, acc, lb, bo>>

\* a = map.find(key)
MapFind(key) ==
  /\ acc = NoFind
  /\ acc' = [key |-> key, a |-> Map_find(hm, key)]
  /\ UNCHANGED <<indexvars, bm, cmp, hm, ref, nins, lb, bo>>

\* the caller is done with the accessor
MapConsume ==
  /\ acc # NoFind
  /\ acc' = NoFind
  /\ UNCHANGED <<indexvars, bm, cmp, hm, ref, nins, lb, bo>>

NextMap ==
  \/ \E key \in KeySet, value \in ValueSet : MapInsert(key, value)
  \/ \E key \in KeySet : MapErase(key)
  \/ \E key \in KeySet : MapFind(key)
  \/ MapConsume

SpecMap == InitMap /\ [][NextMap]_vars

\* ------------------------------------- specification of bucket_list
\* prefixes of the bucket and the suffixes pushed and queried
ListPrefixSet == {0, 1}
NoPred == -1

InitList ==
  /\ IndexUnused
  /\ bm = NotCalled
  /\ cmp = NotCalled
  /\ MapUnused
  /\ bo = NotCalled
  /\ \E pre \in ListPrefixSet :
       \E pp \in 0..Max(0, pre * b_size(t_sampling) - 1) :
         lb = [b |-> [new_bucket(TRUE) EXCEPT !.prefix = pre, !.prev_pred = pp],
               i |-> NoPred, ret |-> 0]

\* b.set(v)
ListSet(v) ==
  /\ lb.i = NoPred
  /\ Len(lb.b.list) < MaxListLen
  /\ lb' = [lb EXCEPT !.b = bucket_list_set(@, v)]
  /\ UNCHANGED <<indexvars, bm, cmp, hm, ref, nins, acc, bo>>

\* ret = b.pred(i)
ListPred(i) ==
  /\ lb.i = NoPred
  /\ lb' = [lb EXCEPT !.i = i, !.ret = bucket_list_pred(t_sampling, lb.b, i)]
  /\ UNCHANGED <<indexvars, bm, cmp, hm, ref, nins, acc, bo>>

\* the caller is done with the result
ListConsume ==
  /\ lb.i # NoPred
  /\ lb' = [lb EXCEPT !.i = NoPred, !.ret = 0]
  /\ UNCHANGED <<indexvars, bm, cmp, hm, ref, nins, acc, bo>>

NextList ==
  \/ \E v \in 0..(b_size(t_sampling) - 1) : ListSet(v)
  \/ \E i \in 0..(b_size(t_sampling) - 1) : ListPred(i)
  \/ ListConsume

SpecList == InitList /\ [][NextList]_vars

\* ------------------------------------------ specification of BitOStream
InitBits ==
  /\ IndexUnused
  /\ bm = NotCalled
  /\ cmp = NotCalled
  /\ MapUnused
  /\ lb = NotCalled
  /\ bo = [o |-> BitOStream, bits |-> <<>>, live |-> TRUE]

\* out.write_bit(b)
WriteBit(b) ==
  /\ bo.live
  /\ Len(bo.bits) < MaxBits
  /\ bo' = [bo EXCEPT !.o = write_bit(@, b), !.bits = Append(@, b)]
  /\ UNCHANGED <<indexvars, bm, cmp, hm, ref, nins, acc, lb>>

\* the stream object goes out of scope
BitsDestroy ==
  /\ bo.live
  /\ bo' = [bo EXCEPT !.o = BitOStream_destructor(@), !.live = FALSE]
  /\ UNCHANGED <<indexvars, bm, cmp, hm, ref, nins, acc, lb>>

NextBits ==
  \/ \E b \in BOOLEAN : WriteBit(b)
  \/ BitsDestroy

SpecBits == InitBits /\ [][NextBits]_vars

\* ---------------------------------------------------------------- claims
Queried == r.x >= 0
\* the result of the last query on one instance
Result(t_list) == IF t_list THEN r.ls ELSE r.bv
\* the keys of S that are <= x
AtMost(x) == {z \in S : z <= x}

\* C1: predecessor(x) returns {true, y} if and only if S contains a key <= x,
\* and then y is the greatest key of S that is <= x (both representations).
C1_PredecessorIsGreatestKeyAtMost ==
  Queried =>
    \A t_list \in BOOLEAN :
      /\ Result(t_list).exists <=> AtMost(r.x) # {}
      /\ Result(t_list).exists => Result(t_list).pos = SetMax(AtMost(r.x))

\* C2: for non-empty S and x >= max(S), predecessor(x) returns {true, max(S)}.
C2_AtOrAboveMaxReturnsMax ==
  (Queried /\ S # {} /\ r.x >= SetMax(S)) =>
    \A t_list \in BOOLEAN :
      Result(t_list).exists /\ Result(t_list).pos = SetMax(S)

\* C2 witness: a query at x = max(S) on an index of several keys whose
\* greatest key was not the last one inserted into a new bucket
C2_Witness ==
  /\ Queried /\ Cardinality(S) >= 2 /\ r.x = SetMax(S)
  /\ r.bv.exists /\ r.bv.pos = r.x /\ r.ls.pos = r.x
  /\ Len(bv.heap) < Cardinality(S)

\* C3: for non-empty S and x < min(S), predecessor(x) returns exactly
\* {false, 0} and reads no entry of the top array.
C3_BelowMinReturnsFalseZero ==
  (Queried /\ S # {} /\ r.x < SetMin(S)) =>
    \A t_list \in BOOLEAN :
      /\ ~Result(t_list).exists
      /\ Result(t_list).pos = 0
      /\ ~Result(t_list).xf_read

\* C3 witness: a query below the least key of an index of several buckets
C3_Witness ==
  /\ Queried /\ Cardinality(S) >= 2 /\ r.x < SetMin(S)
  /\ ~r.bv.exists /\ r.bv.pos = 0 /\ ~r.ls.exists
  /\ Len(bv.heap) >= 2

\* C4: on an index without keys predecessor(x) returns {false, 1} for every
\* x, and {false, 1} is returned in no other state.
C4_EmptyReturnsFalseOne ==
  Queried =>
    \A t_list \in BOOLEAN :
      /\ S = {} => (~Result(t_list).exists /\ Result(t_list).pos = 1)
      /\ (~Result(t_list).exists /\ Result(t_list).pos = 1) => S = {}

\* C4 witness: a query on the empty index
C4_Witness == Queried /\ S = {} /\ ~r.bv.exists /\ r.bv.pos = 1 /\ r.ls.pos = 1

\* C5: for m_min <= x < m_max, predecessor(x) returns exists = true and a
\* pos that is a key of S.
C5_InRangeReturnsKeyOfS ==
  Queried =>
    \A t_list \in BOOLEAN :
      (Index(t_list).m_size # 0 /\ Index(t_list).m_min <= r.x
                                /\ r.x < Index(t_list).m_max) =>
        (Result(t_list).exists /\ Result(t_list).pos \in S)

\* C6: every inserted key k answers predecessor(k) = {true, k}.
C6_InsertedKeyIsItsOwnPredecessor ==
  (Queried /\ r.x \in S) =>
    \A t_list \in BOOLEAN :
      Result(t_list).exists /\ Result(t_list).pos = r.x

\* C7: after the same inserts the bitset and the list instantiation return
\* the same predecessor result for every query, for every sampling parameter.
C7_BitsetAndListAgree ==
  Queried => (r.bv.exists = r.ls.exists /\ r.bv.pos = r.ls.pos)

\* C8: inserting a key that is already in S leaves the whole state of the
\* bitset instantiation unchanged.
C8_ReinsertLeavesBitsetIndexUnchanged ==
  [][(ninserts' = ninserts + 1 /\ S' = S) => bv' = bv]_vars

\* C8 witness: a key was inserted again into a bucket that another bucket
\* follows (the list instantiation shows the second insert)
C8_Witness ==
  /\ ninserts > Cardinality(S)
  /\ \E b \in 1..Len(bv.heap) :
       /\ Len(ls.heap[b].list) > Cardinality(bv.heap[b].bits)
       /\ bv.heap[b].next_b # nullptr
       /\ bv.heap[bv.heap[b].next_b].prev_pred \in S

\* C9: the destructor releases every bucket that insert allocated exactly
\* once.
C9_DestructorReleasesEachBucketOnce ==
  \A t_list \in BOOLEAN :
    life[t_list] # "live" =>
      \A b \in 1..Len(Index(t_list).heap) : freed[t_list][b] = 1

\* C10: no statement of predecessor changes a field of the index or of a
\* bucket, so a query interleaved with other queries returns what the call
\* returns when it runs alone on the same index.
C10_ConcurrentQueriesAreReadOnly ==
  [][/\ (\E th \in Threads : q[th].pc \notin {"idle", "ret"} /\ q'[th] # q[th])
          => (bv' = bv /\ ls' = ls)
     /\ \A th \in Threads :
          q'[th].pc = "ret" =>
            LET alone == predecessor(q'[th].t_list, t_sampling,
                                     IF q'[th].t_list THEN ls' ELSE bv',
                                     q'[th].x)
            IN  q'[th].exists = alone.exists /\ q'[th].pos = alone.pos]_vars

\* C10 witness: one thread has its result from a bucket while the other is
\* in the middle of a query on the same instance
C10_Witness ==
  /\ q["t1"].pc = "ret" /\ q["t1"].exists /\ q["t1"].pos < bv.m_max
  /\ q["t2"].pc = "l304" /\ q["t2"].t_list = q["t1"].t_list
  /\ Cardinality(S) >= 2

\* C11: after inserts of pairwise distinct keys m_size equals |S|.
C11_SizeCountsKeys ==
  ninserts = Cardinality(S) =>
    \A t_list \in BOOLEAN : Index(t_list).m_size = Cardinality(S)

\* the prefixes that hold a key of S
Occupied == {prefix(t_sampling, k) : k \in S}

\* C17: the top array is a step function: len(xf) is the greatest occupied
\* prefix + 1 and xf[p] is the bucket of the greatest occupied prefix <= p,
\* or null when no prefix <= p is occupied.
C17_TopArrayIsStepFunction ==
  LET occ == Occupied
  IN  \A t_list \in BOOLEAN :
        LET d == Index(t_list)
        IN  /\ Len(d.m_xf) = IF S = {} THEN 0 ELSE SetMax(occ) + 1
            /\ \A p \in 0..(Len(d.m_xf) - 1) :
                 LET below == {o \in occ : o <= p}
                     b == xf_at(d, p)
                 IN  IF below = {}
                       THEN b = nullptr
                       ELSE b # nullptr /\ d.heap[b].prefix = SetMax(below)

\* C17 witness: a bucket inserted before the first one, whose pointer the
\* loop copied into the null entry that follows it
C17_Witness ==
  /\ Len(bv.m_xf) >= 4 /\ Len(bv.heap) = 2
  /\ bv.m_xf[1] = nullptr /\ bv.m_xf[2] = 2 /\ bv.m_xf[3] = 2
  /\ bv.m_xf[4] = 1 /\ ls.m_xf = bv.m_xf

\* C18: every bucket's prev_pred is the greatest key of S in a bucket of
\* smaller prefix, and 0 for the first bucket.
C18_PrevPredIsGreatestKeyBelowBucket ==
  \A t_list \in BOOLEAN :
    LET d == Index(t_list)
    IN  \A b \in 1..Len(d.heap) :
          LET lower == {k \in S : prefix(t_sampling, k) < d.heap[b].prefix}
          IN  d.heap[b].prev_pred = IF lower = {} THEN 0 ELSE SetMax(lower)

\* C18 witness: a bucket made by a gap insert that took over the next
\* bucket's prev_pred, while the next bucket's prev_pred became the new key
C18_Witness ==
  /\ Len(bv.heap) = 3 /\ bv.m_first_b = 1
  /\ bv.heap[1].next_b = 3 /\ bv.heap[3].next_b = 2
  /\ bv.heap[3].prev_pred > 0
  /\ bv.heap[2].prev_pred \in ls.heap[3].prev_pred + 1 .. bv.m_max - 1

\* the buckets reached from b by next_b, at most n of them
RECURSIVE Chain(_, _, _)
Chain(heap, b, n) ==
  IF b = nullptr \/ n = 0 THEN <<>>
  ELSE <<b>> \o Chain(heap, heap[b].next_b, n - 1)

\* C19: following next_b from m_first_b visits every allocated bucket once,
\* in strictly ascending prefix order, and ends at null; m_first_b is the
\* bucket of the least occupied prefix and the last entry of xf the bucket of
\* the greatest, whose next_b is null.
C19_BucketsLinkedInAscendingOrder ==
  \A t_list \in BOOLEAN :
    LET d == Index(t_list)
        c == Chain(d.heap, d.m_first_b, Len(d.heap) + 1)
    IN  /\ Len(c) = Len(d.heap)
        /\ {c[i] : i \in 1..Len(c)} = 1..Len(d.heap)
        /\ \A i \in 1..(Len(c) - 1) :
             d.heap[c[i]].prefix < d.heap[c[i + 1]].prefix
        /\ S # {} =>
             /\ d.heap[d.m_first_b].prefix = SetMin(Occupied)
             /\ d.m_xf[Len(d.m_xf)] # nullptr
             /\ d.heap[d.m_xf[Len(d.m_xf)]].prefix = SetMax(Occupied)
             /\ d.heap[d.m_xf[Len(d.m_xf)]].next_b = nullptr

\* C19 witness: a first bucket, a bucket linked before it and a bucket
\* linked into the gap between the two
C19_Witness ==
  /\ Len(ls.heap) = 3 /\ ls.m_first_b = 2
  /\ ls.heap[2].next_b = 3 /\ ls.heap[3].next_b = 1
  /\ ls.heap[1].next_b = nullptr /\ bv.m_first_b = 2

\* C20: for non-empty S, m_min = min(S) and m_max = max(S).
C20_MinMaxTrackS ==
  S # {} =>
    \A t_list \in BOOLEAN :
      /\ Index(t_list).m_min = SetMin(S)
      /\ Index(t_list).m_max = SetMax(S)

\* C20 witness: the least and the greatest key both entered the one bucket
\* after the first key, through the exact-bucket branch
C20_Witness ==
  /\ Cardinality(S) = 3 /\ Len(bv.heap) = 1
  /\ Len(ls.heap[1].list) = 3
  /\ ls.heap[1].list[1] > ls.heap[1].list[2]
  /\ ls.heap[1].list[1] < ls.heap[1].list[3]
  /\ bv.m_min < bv.m_max

\* the number a word (a set of bit positions below 31) stands for
RECURSIVE ToNat(_)
ToNat(a) == IF a = {} THEN 0 ELSE LET i == SetMax(a) IN 2^i + ToNat(a \ {i})

\* C12: bit_mask<T>(n) returns the word with exactly the n lowest bits set
\* (2^n - 1) for n < num_bits, all bits of T for n >= num_bits, and never
\* evaluates a shift by num_bits or more.
C12_BitMaskLowBits ==
  bm.called =>
    /\ bm.ret.value = {i \in 0..(bm.T - 1) : i < bm.bits}
    /\ bm.T < IntBits /\ bm.bits < bm.T => ToNat(bm.ret.value) = 2^bm.bits - 1
    /\ bm.ret.shift < num_bits(bm.T)
    /\ ~bm.ret.ub

\* C12 witness: the widest shift that is evaluated, in a 64-bit word
C12_Witness ==
  /\ bm.called /\ bm.T = 64 /\ bm.bits = 63
  /\ bm.ret.shift = 63 /\ bm.ret.value = 0..62

\* C13: pcmpgtub is an unsigned per-byte comparison: byte i of the result is
\* 0xFF if byte i of a is greater than byte i of b as unsigned values and
\* 0x00 otherwise, also for bytes >= 0x80.
C13_PcmpgtubIsUnsignedPerByte ==
  cmp.called =>
    \A i \in Lanes : cmp.ret[i] = IF cmp.a[i] > cmp.b[i] THEN 255 ELSE 0

\* C13 witness: a lane with a = 0x80 > b = 0x7F (signed: less) answers 0xFF,
\* another with a = 0x7F < b = 0xFF (signed: greater) answers 0x00
C13_Witness ==
  /\ cmp.called
  /\ \E i \in Lanes : cmp.a[i] = 128 /\ cmp.b[i] = 127 /\ cmp.ret[i] = 255
  /\ \E i \in Lanes : cmp.a[i] = 127 /\ cmp.b[i] = 255 /\ cmp.ret[i] = 0

\* C15: find agrees with the reference map after any sequence of insert and
\* erase calls: for a key inserted and not erased since, it returns a valid
\* accessor with that key and the value inserted with it; for a key that is
\* not stored it returns an invalid accessor.
C15_FindAgreesWithReferenceMap ==
  acc # NoFind =>
    IF acc.key \in DOMAIN ref
      THEN /\ acc.a.m_map # nullptr
           /\ hm.m_keys[acc.a.m_pos] = acc.key
           /\ hm.m_values[acc.a.m_pos] = ref[acc.key]
      ELSE acc.a.m_map = nullptr

\* C16: size() is the number of slots marked used, i.e. of items inserted
\* and not erased.
C16_SizeCountsUsedSlots ==
  /\ Map_size(hm) = Cardinality({h \in DOMAIN hm.m_used : hm.m_used[h]})
  /\ Map_size(hm) = Cardinality(DOMAIN ref)

\* the prefixes of the buckets of an index, in the order of their allocation
BucketPrefixes(d) == [b \in 1..Len(d.heap) |-> d.heap[b].prefix]

\* C21: buckets are created on first occupancy only: there is exactly one
\* bucket per distinct prefix occurring in S, an insert whose prefix is
\* already occupied allocates no bucket, and a bucket once created keeps its
\* prefix and its place in the top array while the index lives.
C21_OneBucketPerPrefixForLife ==
  [][\A t_list \in BOOLEAN :
       LET d == Index(t_list)
           e == IF t_list THEN ls' ELSE bv'
           occ == {prefix(t_sampling, k) : k \in S'}
           pre == BucketPrefixes(e)
       IN  /\ Len(e.heap) = Cardinality(occ)
           /\ {pre[b] : b \in 1..Len(pre)} = occ
           /\ \A b \in 1..Len(pre) : xf_at(e, pre[b]) = b
           /\ Len(e.heap) >= Len(d.heap)
           /\ SubSeq(pre, 1, Len(d.heap)) = BucketPrefixes(d)
           /\ (ninserts' = ninserts + 1 /\ Occupied' = Occupied)
                => Len(e.heap) = Len(d.heap)]_vars

\* C21 witness: three distinct keys in two buckets, the last of them put into
\* the bucket of an occupied prefix
C21_Witness ==
  /\ ninserts = 3 /\ Cardinality(S) = 3
  /\ Len(bv.heap) = 2 /\ Len(ls.heap) = 2
  /\ \E b \in 1..2 : Len(ls.heap[b].list) = 2 /\ Cardinality(bv.heap[b].bits) = 2

\* C22: bucket_list::pred(i) returns (prefix << s) + m, m the maximum element
\* of the list that is <= i, and prev_pred when no element is <= i, for every
\* list content and order, duplicates included.
C22_ListPredIsMaximumAtMost ==
  lb.i # NoPred =>
    LET below == {lb.b.list[j] : j \in 1..Len(lb.b.list)} \cap (0..lb.i)
    IN  lb.ret = IF below = {} THEN lb.b.prev_pred
                 ELSE lb.b.prefix * b_size(t_sampling) + SetMax(below)

\* C22 witness: the first loop passes an element > i and stops at an element
\* <= i that is not the maximum; the second loop finds the greater one behind
\* it, which occurs in the list twice
C22_Witness ==
  /\ lb.i = 2 /\ lb.b.list = <<3, 1, 2, 2>> /\ lb.b.prefix = 1
  /\ lb.ret = b_size(t_sampling) + 2

\* the suffix content of a bucket
Content(t_list, b) == IF t_list THEN b.list ELSE b.bits

\* insert(key) takes the branch of lines 259-267 on the index d
ExactBranch(d, key) ==
  LET key_pre == prefix(t_sampling, key)
  IN  /\ key_pre < Len(d.m_xf)
      /\ key_pre >= prefix(t_sampling, d.m_min)
      /\ d.heap[xf_at(d, key_pre)].prefix = key_pre

\* the step is the driver's insert(key)
InsertStepOf(key) ==
  /\ ninserts' = ninserts + 1
  /\ S' = S \cup {key}
  /\ bv' = insert(FALSE, t_sampling, bv, key)
  /\ ls' = insert(TRUE, t_sampling, ls, key)

\* C23: an insert into an existing bucket (xf[pre].prefix = pre) is local: it
\* changes only that bucket's suffix content, the next bucket's prev_pred (to
\* max(k, old value), when a next bucket exists) and m_min / m_max; xf, the
\* set of buckets, every next_b, m_first_b and every other prev_pred stay.
C23_ExactInsertIsLocal ==
  [][\A key \in KeyDomain(t_sampling) : \A t_list \in BOOLEAN :
       LET d == Index(t_list)
           e == IF t_list THEN ls' ELSE bv'
       IN  (ninserts' = ninserts + 1 /\ key \in S' /\ ExactBranch(d, key)
              /\ InsertStepOf(key)) =>
             LET kb == xf_at(d, prefix(t_sampling, key))
                 nb == d.heap[kb].next_b
             IN  /\ e.m_xf = d.m_xf
                 /\ e.m_first_b = d.m_first_b
                 /\ e.m_size = d.m_size
                 /\ Len(e.heap) = Len(d.heap)
                 /\ e.m_min = Min(key, d.m_min)
                 /\ e.m_max = Max(key, d.m_max)
                 /\ \A b \in 1..Len(d.heap) :
                      /\ e.heap[b].prefix = d.heap[b].prefix
                      /\ e.heap[b].next_b = d.heap[b].next_b
                      /\ e.heap[b].prev_pred =
                           IF b = nb THEN Max(key, d.heap[b].prev_pred)
                                     ELSE d.heap[b].prev_pred
                      /\ Content(t_list, e.heap[b]) =
                           IF b = kb
                             THEN Content(t_list,
                                          bucket_set(t_list, d.heap[b],
                                                     suffix(t_sampling, key)))
                             ELSE Content(t_list, d.heap[b])]_vars

\* C23 witness: a bucket linked before the first one received a second,
\* greater key afterwards, which became the prev_pred of the bucket behind it
C23_Witness ==
  /\ Len(ls.heap) = 2 /\ ls.m_first_b = 2 /\ ls.heap[2].next_b = 1
  /\ Len(ls.heap[2].list) = 2 /\ Cardinality(bv.heap[2].bits) = 2
  /\ bv.heap[1].prev_pred = SetMax({k \in S : prefix(t_sampling, k) = bv.heap[2].prefix})
  /\ ls.heap[1].prev_pred = bv.heap[1].prev_pred
  /\ ls.heap[2].list[2] > ls.heap[2].list[1]

\* C24: re-inserting a key that is already in S into the list instantiation
\* appends one duplicate suffix to the list of the key's bucket and changes
\* nothing else; predecessor(x) is the same for every x afterwards.
C24_ListReinsertAppendsDuplicate ==
  [][(ninserts' = ninserts + 1 /\ S' = S) =>
       /\ \E k \in S :
            LET kb == xf_at(ls, prefix(t_sampling, k))
                dup == suffix(t_sampling, k) % (2^ListElemBits)
            IN  /\ \E j \in 1..Len(ls.heap[kb].list) : ls.heap[kb].list[j] = dup
                /\ ls' = [ls EXCEPT !.heap[kb].list = Append(@, dup)]
       /\ \A x \in KeyDomain(t_sampling) :
            predecessor(TRUE, t_sampling, ls', x)
              = predecessor(TRUE, t_sampling, ls, x)]_vars

\* C24 witness: a list bucket holds the same suffix twice in an index of two
\* keys
C24_Witness ==
  /\ ninserts = 3 /\ Cardinality(S) = 2
  /\ \E b \in 1..Len(ls.heap) :
       /\ Len(ls.heap[b].list) >= 2
       /\ ls.heap[b].list[Len(ls.heap[b].list)] = ls.heap[b].list[1]

\* C25: no null dereference in insert: in every reachable state and for
\* every key, m_xf.back() is non-null when the key is appended above a
\* non-empty index, m_first_b is non-null when the key goes before the first
\* bucket, xf[pre] is non-null when the in-between branch is taken, and in
\* the gap case the bucket at xf[pre] has a non-null next_b.
C25_InsertDereferencesNoNull ==
  \A t_list \in BOOLEAN :
    life[t_list] = "live" =>
      LET d == Index(t_list)
      IN  \A key_pre \in 0..(MaxPrefix + 1) :
            IF key_pre >= Len(d.m_xf)
              THEN d.m_size # 0 =>
                     (Len(d.m_xf) > 0 /\ d.m_xf[Len(d.m_xf)] # nullptr)
            ELSE IF key_pre < prefix(t_sampling, d.m_min)
              THEN d.m_first_b # nullptr
            ELSE /\ xf_at(d, key_pre) # nullptr
                 /\ d.heap[xf_at(d, key_pre)].prefix # key_pre
                      => d.heap[xf_at(d, key_pre)].next_b # nullptr

\* C25 witness: a second key was appended above the first bucket and a third
\* went into the gap between the two buckets, through xf[pre] and its next_b
C25_Witness ==
  /\ Len(bv.heap) = 3 /\ Len(ls.heap) = 3 /\ bv.m_first_b = 1
  /\ bv.heap[1].prefix < bv.heap[3].prefix
  /\ bv.heap[3].prefix < bv.heap[2].prefix
  /\ bv.heap[1].next_b = 3 /\ ls.heap[3].next_b = 2
  /\ xf_at(bv, bv.heap[3].prefix) = 3

\* the index that results from inserting the keys K in ascending order
RECURSIVE InsertAscending(_, _, _)
InsertAscending(t_list, s, K) ==
  IF K = {} THEN EmptyIndex(0, 0)
  ELSE insert(t_list, s, InsertAscending(t_list, s, K \ {SetMax(K)}), SetMax(K))

\* the abstract state of a bitset index: xf as a function from prefixes to
\* bucket prefixes (-1: null), the buckets by prefix with content and
\* prev_pred, m_min and m_max
Abstract(d) ==
  [xf |-> [p \in 1..Len(d.m_xf) |->
             IF d.m_xf[p] = nullptr THEN -1 ELSE d.heap[d.m_xf[p]].prefix],
   buckets |-> {[prefix |-> d.heap[b].prefix, bits |-> d.heap[b].bits,
                 prev_pred |-> d.heap[b].prev_pred] : b \in 1..Len(d.heap)},
   m_min |-> d.m_min, m_max |-> d.m_max]

\* C26: insertion order does not matter: whatever the order in which a set
\* of distinct keys was inserted, the index answers predecessor(x) for every
\* x like the index built in ascending order (both instantiations), and the
\* bitset index has the same abstract state.
C26_InsertionOrderDoesNotMatter ==
  [][(ninserts' = ninserts + 1 /\ ninserts' = Cardinality(S')) =>
       \A cbv \in {InsertAscending(FALSE, t_sampling, S')} :
       \A cls \in {InsertAscending(TRUE, t_sampling, S')} :
         /\ Abstract(bv') = Abstract(cbv)
         /\ \A x \in KeyDomain(t_sampling) :
              /\ predecessor(FALSE, t_sampling, bv', x)
                   = predecessor(FALSE, t_sampling, cbv, x)
              /\ predecessor(TRUE, t_sampling, ls', x)
                   = predecessor(TRUE, t_sampling, cls, x)]_vars

\* C26 witness: three distinct keys inserted highest bucket first, lowest
\* second and the middle one last
C26_Witness ==
  /\ ninserts = 3 /\ Cardinality(S) = 3 /\ Len(bv.heap) = 3
  /\ bv.heap[2].prefix < bv.heap[3].prefix
  /\ bv.heap[3].prefix < bv.heap[1].prefix
  /\ ls.m_first_b = 2 /\ ls.heap[3].next_b = 1

\* the bits a reader recovers from the bytes of a closed stream: the low 3
\* bits of the last byte give n mod 8, and with them the byte that holds the
\* last payload bits
Decode(out) ==
  LET k == out[Len(out)] % 8
      nbytes == IF k <= 5 THEN Len(out) ELSE Len(out) - 1
      n == 8 * (nbytes - 1) + k
  IN  [i \in 1..n |-> bit(out[(i - 1) \div 8 + 1], MSB - ((i - 1) % 8)) = 1]

\* C27: after writing b1..bn with write_bit and destroying the stream, the
\* underlying stream holds the bits packed most significant bit first,
\* floor(n/8) full bytes followed by one final byte when n mod 8 <= 5 and by
\* two when n mod 8 is 6 or 7; the low 3 bits of the last byte equal n mod 8,
\* the length tag overwrites no payload bit, and b1..bn can be recovered.
C27_BitOStreamFraming ==
  LET n == Len(bo.bits)
      out == bo.o.m_stream
  IN  IF bo.live
        THEN Len(out) = n \div 8
        ELSE /\ Len(out) = n \div 8 + (IF n % 8 <= 5 THEN 1 ELSE 2)
             /\ \A i \in 1..n :
                  bit(out[(i - 1) \div 8 + 1], MSB - ((i - 1) % 8))
                    = IF bo.bits[i] THEN 1 ELSE 0
             /\ out[Len(out)] % 8 = n % 8
             /\ Decode(out) = bo.bits

\* C27 witness: 14 bits, all 1, closed: a full byte, a byte with 6 payload
\* bits and no room for the tag, and a third byte that holds the tag 6
C27_Witness ==
  /\ ~bo.live /\ Len(bo.bits) = 14
  /\ bo.o.m_stream = <<255, 252, 6>>

\* C28: insert always terminates: after any sequence of insert and erase
\* calls insert grows the table before it is full, so when insert_internal
\* starts probing at least one slot is unused and linear probing reaches it
\* within m_cap steps, for every key; size() <= capacity() after every insert.
C28_InsertFindsUnusedSlot ==
  /\ hm.m_cap >= 1
  /\ Map_size(hm) <= hm.m_cap
  /\ Map_size(hm) >= Cardinality({h \in DOMAIN hm.m_used : hm.m_used[h]})
  /\ hm.m_size_grow > hm.m_cap
  /\ LET m == IF hm.m_size + 1 > hm.m_size_max
                THEN Map_resize(hm, hm.m_size_grow)
                ELSE hm
     IN  /\ \E h \in DOMAIN m.m_used : ~m.m_used[h]
         /\ \A key \in KeySet :
              LET p == insert_probe(m, Map_hash(m, key), Map_hash(m, key), 0, 0)
              IN  p.probe < m.m_cap /\ ~m.m_used[p.h]

\* C28 witness: three inserts from capacity 1 grew the table twice and the
\* last one probed past two used slots
C28_Witness ==
  /\ nins = 3 /\ hm.m_cap = 4 /\ Map_size(hm) = 3
  /\ hm.m_probe_max = 2
  /\ Cardinality({h \in DOMAIN hm.m_used : hm.m_used[h]}) = 3

====
